---------------------------- MODULE Spec2Model ----------------------------
(***************************************************************************)
(* Model of the two text filters of FNNDSC/intent-server,                  *)
(* agentic-nondeterminism/number_citations.py and fix_cites.py.            *)
(*                                                                         *)
(* A text is a sequence of one-character strings.  Every regular           *)
(* expression of the source is modelled by an operator that decides where  *)
(* a match of it starts and ends, character by character, and re.sub by a  *)
(* left-to-right scan that replaces the leftmost non-overlapping matches.  *)
(* The alphabet of the modelled inputs holds "\n" as its only line break   *)
(* and " ", "\n" as its only white space.                                  *)
(***************************************************************************)
EXTENDS Naturals, Sequences, FiniteSets, TLC

VARIABLES
    \* number_citations.py
    stdin,          \* what the invocation reads (sys.stdin or the named file)
    text,           \* main: text
    before,         \* main: before
    refs,           \* main: refs
    after,          \* main: after
    ordered_keys,   \* main: ordered_keys
    key_to_num,     \* main: key_to_num
    body_numbered,  \* main: body_numbered
    refs_numbered,  \* main: refs_numbered
    stdout,         \* what the invocation has written to sys.stdout
    pc,             \* position of number_citations.main
    rerun,          \* TRUE once the filter has been run again on its own output
    \* fix_cites.py
    given,          \* content of the file before fix_cites first ran on it
    file,           \* content of the file at path
    original,       \* what path.read_text returned in this invocation
    ftext,          \* main: text
    fpc,            \* position of fix_cites.main
    frerun          \* TRUE once fix_cites has been run again on the same file

nvars == <<stdin, text, before, refs, after, ordered_keys, key_to_num,
           body_numbered, refs_numbered, stdout, pc, rerun>>
fvars == <<given, file, original, ftext, fpc, frerun>>
vars == <<nvars, fvars>>

---------------------------------------------------------------------------
(* Texts and the pieces of regular-expression matching shared by both tools *)

Empty == <<>>

\* Python's \s, within the alphabet of the model.
IsSpace(c) == c \in {" ", "\t", "\n"}

\* The literal lit occurs in s at position i.
HasAt(s, i, lit) ==
    /\ i >= 1
    /\ i + Len(lit) - 1 <= Len(s)
    /\ \A k \in 1..Len(lit) : s[i + k - 1] = lit[k]

\* s[i..] (Python s[i-1:]).
From(s, i) == SubSeq(s, i, Len(s))

\* Least element of a non-empty set of naturals, 0 for the empty set.
Least(S) == IF S = {} THEN 0 ELSE CHOOSE x \in S : \A y \in S : x <= y

\* Position of the first character c of s at or after i, Len(s)+1 if none.
FirstOf(s, i, c) ==
    LET hits == {j \in i..Len(s) : s[j] = c}
    IN  IF hits = {} THEN Len(s) + 1 ELSE Least(hits)

\* str.strip(): leading and trailing white space removed.
Strip(s) ==
    LET keep == {j \in 1..Len(s) : ~IsSpace(s[j])}
    IN  IF keep = {} THEN Empty
        ELSE SubSeq(s, Least(keep), CHOOSE x \in keep : \A y \in keep : y <= x)

\* str(n) for a natural number n.
RECURSIVE ToStr(_)
ToStr(n) ==
    LET d == <<"0", "1", "2", "3", "4", "5", "6", "7", "8", "9">>
    IN  IF n < 10 THEN <<d[n + 1]>> ELSE ToStr(n \div 10) \o <<d[(n % 10) + 1]>>

\* str.splitlines(): the lines of s without their line breaks; a final line
\* break ends the last line and opens no new one.
RECURSIVE SplitLines(_)
SplitLines(s) ==
    IF s = Empty THEN <<>>
    ELSE LET nl == FirstOf(s, 1, "\n")
         IN  <<SubSeq(s, 1, nl - 1)>> \o SplitLines(From(s, nl + 1))

\* sep.join(parts)
RECURSIVE Join(_, _)
Join(sep, parts) ==
    IF parts = <<>> THEN Empty
    ELSE IF Len(parts) = 1 THEN parts[1]
    ELSE parts[1] \o sep \o Join(sep, Tail(parts))

\* ^ under re.MULTILINE: position i starts a line.
AtLineStart(s, i) == i = 1 \/ (i >= 2 /\ i <= Len(s) + 1 /\ s[i - 1] = "\n")

\* $ under re.MULTILINE: position i is the end of the text or holds a line break.
AtLineEnd(s, i) == i = Len(s) + 1 \/ (i >= 1 /\ i <= Len(s) /\ s[i] = "\n")

---------------------------------------------------------------------------
(* number_citations.py: split_sections *)

RefsHeading == <<"=", "=", " ", "R", "e", "f", "e", "r", "e", "n", "c", "e", "s">>

\* A variant: the search without re.MULTILINE's line start.
RefsHeadingAnywhere(s, i) ==
    /\ HasAt(s, i, RefsHeading)
    /\ LET e == i + Len(RefsHeading)
       IN  \E k \in 0..(Len(s) + 1 - e) :
              /\ \A j \in e..(e + k - 1) : IsSpace(s[j])
              /\ AtLineEnd(s, e + k)

\* r"^== References\s*$" matches at i.
RefsHeadingAt(s, i) ==
    /\ AtLineStart(s, i)
    /\ HasAt(s, i, RefsHeading)
    /\ LET e == i + Len(RefsHeading)
       IN  \E k \in 0..(Len(s) + 1 - e) :
              /\ \A j \in e..(e + k - 1) : IsSpace(s[j])
              /\ AtLineEnd(s, e + k)

\* r"^==\s+[^=\s].*$" matches at p.
NextSectionAt(s, p) ==
    /\ AtLineStart(s, p)
    /\ HasAt(s, p, <<"=", "=">>)
    /\ \E k \in 1..Len(s) :
          /\ p + 2 + k <= Len(s)
          /\ \A j \in (p + 2)..(p + 1 + k) : IsSpace(s[j])
          /\ s[p + 2 + k] # "="
          /\ ~IsSpace(s[p + 2 + k])

\* re.search: start of the leftmost match, 0 for None.
SearchRefsHeading(s) == Least({i \in 1..Len(s) : RefsHeadingAt(s, i)})
SearchNextSection(s) == Least({p \in 1..Len(s) : NextSectionAt(s, p)})

\* (before, refs, after)
split_sections(t) ==
    LET m == SearchRefsHeading(t)
    IN  IF m = 0 THEN <<t, Empty, Empty>>
        ELSE LET m_next == SearchNextSection(From(t, m + 1))
                 refs_end == IF m_next # 0 THEN m + m_next - 1 ELSE Len(t)
             IN  <<SubSeq(t, 1, m - 1), SubSeq(t, m, refs_end), From(t, refs_end + 1)>>

---------------------------------------------------------------------------
(* number_citations.py: parse_reference_keys *)

\* r"\[\[([^\]]+)\]\]" matches at p; AnchorClose is the position of its first "]".
AnchorClose(line, p) == FirstOf(line, p + 2, "]")
AnchorAt(line, p) ==
    /\ HasAt(line, p, <<"[", "[">>)
    /\ AnchorClose(line, p) >= p + 3
    /\ HasAt(line, AnchorClose(line, p), <<"]", "]">>)

\* re.search of the anchor pattern in a line: start of the match, 0 for None.
SearchAnchor(line) == Least({p \in 1..Len(line) : AnchorAt(line, p)})

\* m.group(1).strip() of the match at p.
AnchorKey(line, p) == Strip(SubSeq(line, p + 2, AnchorClose(line, p) - 1))

\* One turn of the loop over refs.splitlines(); acc = [keys, key_to_num].
ParseLineDup(acc, line) ==
    LET m == SearchAnchor(line)
    IN  IF m = 0 THEN acc
        ELSE LET key == AnchorKey(line, m)
                 keys == Append(acc.keys, key)
             IN  [keys |-> keys,
                  key_to_num |-> (key :> Len(keys)) @@ acc.key_to_num]

ParseLine(acc, line) ==
    LET m == SearchAnchor(line)
    IN  IF m = 0 THEN acc
        ELSE LET key == AnchorKey(line, m)
             IN  IF key \in DOMAIN acc.key_to_num THEN acc
                 ELSE LET keys == Append(acc.keys, key)
                      IN  [keys |-> keys,
                           key_to_num |-> (key :> Len(keys)) @@ acc.key_to_num]

RECURSIVE ParseLines(_, _)
ParseLines(acc, lines) ==
    IF lines = <<>> THEN acc
    ELSE ParseLines(ParseLine(acc, Head(lines)), Tail(lines))

NoKeys == [k \in {} |-> 0]

\* [keys |-> ordered_keys, key_to_num |-> key_to_num]
parse_reference_keys(r) ==
    ParseLines([keys |-> <<>>, key_to_num |-> NoKeys], SplitLines(r))

---------------------------------------------------------------------------
(* number_citations.py: replace_citations *)

\* r"<<[^>]+>>" matches at p; MarkerClose is the position of its first ">".
MarkerClose(s, p) == FirstOf(s, p + 2, ">")
MarkerAt(s, p) ==
    /\ HasAt(s, p, <<"<", "<">>)
    /\ MarkerClose(s, p) >= p + 3
    /\ HasAt(s, MarkerClose(s, p), <<">", ">">>)
MarkerEnd(s, p) == MarkerClose(s, p) + 1

\* \s* from position i: the first position at or after i that holds no white space.
SkipSpace(s, i) ==
    LET stops == {j \in i..Len(s) : ~IsSpace(s[j])}
    IN  IF stops = {} THEN Len(s) + 1 ELSE Least(stops)

\* (?:\s*,\s*<<[^>]+>>)* after a match that ends at e: the end of the whole match.
RECURSIVE RunEnd(_, _)
RunEnd(s, e) ==
    LET c == SkipSpace(s, e + 1)
        d == SkipSpace(s, c + 1)
    IN  IF c <= Len(s) /\ s[c] = "," /\ MarkerAt(s, d)
        THEN RunEnd(s, MarkerEnd(s, d))
        ELSE e

\* The group of r"<<\s*([^>]+?)\s*>>" for the text between "<<" and ">>": the
\* greedy leading \s* gives one character back when nothing else is left for
\* the group.
MarkerKey(inner) ==
    IF \A j \in 1..Len(inner) : IsSpace(inner[j])
    THEN <<inner[Len(inner)]>>
    ELSE Strip(inner)

\* re.findall(r"<<\s*([^>]+?)\s*>>", group), scanning from position p.
RECURSIVE FindKeys(_, _)
FindKeys(group, p) ==
    IF p > Len(group) THEN <<>>
    ELSE IF MarkerAt(group, p)
    THEN <<MarkerKey(SubSeq(group, p + 2, MarkerClose(group, p) - 1))>>
         \o FindKeys(group, MarkerEnd(group, p) + 1)
    ELSE FindKeys(group, p + 1)

\* The numbers of a list of known keys, as strings.
Nums(keys, k2n) == [i \in 1..Len(keys) |-> ToStr(k2n[keys[i]])]

\* A variant: the known markers of a run are substituted one by one and
\* the unknown ones kept.
RECURSIVE PartialNums(_, _)
PartialNums(keys, k2n) ==
    IF keys = <<>> THEN <<>>
    ELSE <<IF Head(keys) \in DOMAIN k2n THEN ToStr(k2n[Head(keys)])
           ELSE <<"<", "<">> \o Head(keys) \o <<">", ">">> >>
         \o PartialNums(Tail(keys), k2n)
replPartial(group, k2n) ==
    LET keys == FindKeys(group, 1)
    IN  IF \A i \in 1..Len(keys) : keys[i] \notin DOMAIN k2n
        THEN group
        ELSE <<"[">> \o Join(<<",", " ">>, PartialNums(keys, k2n)) \o <<"]">>

\* A variant: the numbers of a run are emitted in reverse order.
replReversed(group, k2n) ==
    LET keys == FindKeys(group, 1)
        n == Len(keys)
    IN  IF \E i \in 1..n : keys[i] \notin DOMAIN k2n
        THEN group
        ELSE <<"[">> \o Join(<<",", " ">>, [i \in 1..n |-> Nums(keys, k2n)[n + 1 - i]])
             \o <<"]">>

\* replace_citations.repl
repl(group, k2n) ==
    LET keys == FindKeys(group, 1)
    IN  IF \E i \in 1..Len(keys) : keys[i] \notin DOMAIN k2n
        THEN group
        ELSE <<"[">> \o Join(<<",", " ">>, Nums(keys, k2n)) \o <<"]">>

\* pattern.sub(repl, body), scanning from position p.
RECURSIVE SubCitations(_, _, _)
SubCitations(body, p, k2n) ==
    IF p > Len(body) THEN Empty
    ELSE IF MarkerAt(body, p)
    THEN LET e == RunEnd(body, MarkerEnd(body, p))
         IN  repl(SubSeq(body, p, e), k2n) \o SubCitations(body, e + 1, k2n)
    ELSE <<body[p]>> \o SubCitations(body, p + 1, k2n)

replace_citations(body, k2n) == SubCitations(body, 1, k2n)

---------------------------------------------------------------------------
(* number_citations.py: renumber_references *)

\* {k: i + 1 for i, k in enumerate(ordered_keys)}.get(key); 0 stands for None.
KeyNumber(keys, key) ==
    LET at == {i \in 1..Len(keys) : keys[i] = key}
    IN  IF at = {} THEN 0 ELSE CHOOSE i \in at : \A j \in at : j <= i

\* A variant: re.sub without count=1 rewrites every anchor of the line
\* with the number of the first one.
RECURSIVE SubAllAnchors(_, _, _)
SubAllAnchors(line, p, n) ==
    IF p > Len(line) THEN Empty
    ELSE IF AnchorAt(line, p)
    THEN <<"[">> \o ToStr(n) \o <<"]">>
         \o SubAllAnchors(line, AnchorClose(line, p) + 2, n)
    ELSE <<line[p]>> \o SubAllAnchors(line, p + 1, n)
RenumberLineAll(line, keys) ==
    LET m == SearchAnchor(line)
    IN  IF m = 0 \/ KeyNumber(keys, AnchorKey(line, m)) = 0 THEN line
        ELSE SubAllAnchors(line, 1, KeyNumber(keys, AnchorKey(line, m)))

\* One turn of the loop over refs.splitlines(): the line appended to out_lines.
RenumberLine(line, keys) ==
    LET m == SearchAnchor(line)
    IN  IF m = 0 THEN line
        ELSE LET n == KeyNumber(keys, AnchorKey(line, m))
             IN  IF n = 0 THEN line
                 ELSE SubSeq(line, 1, m - 1)
                      \o <<"[">> \o ToStr(n) \o <<"]">>
                      \o From(line, AnchorClose(line, m) + 2)

renumber_references(r, keys) ==
    LET lines == SplitLines(r)
    IN  Join(<<"\n">>, [i \in 1..Len(lines) |-> RenumberLine(lines[i], keys)])

---------------------------------------------------------------------------
(* number_citations.py: main *)

Read ==
    /\ pc = "read"
    /\ text' = stdin
    /\ pc' = "split"
    /\ UNCHANGED <<stdin, before, refs, after, ordered_keys, key_to_num,
                   body_numbered, refs_numbered, stdout, rerun>>
    /\ UNCHANGED fvars

Split ==
    /\ pc = "split"
    /\ before' = split_sections(text)[1]
    /\ refs' = split_sections(text)[2]
    /\ after' = split_sections(text)[3]
    /\ pc' = "check"
    /\ UNCHANGED <<stdin, text, ordered_keys, key_to_num, body_numbered,
                   refs_numbered, stdout, rerun>>
    /\ UNCHANGED fvars

\* if not refs: sys.stdout.write(text); return
Passthrough ==
    /\ pc = "check"
    /\ refs = Empty
    /\ stdout' = text
    /\ pc' = "done"
    /\ UNCHANGED <<stdin, text, before, refs, after, ordered_keys, key_to_num,
                   body_numbered, refs_numbered, rerun>>
    /\ UNCHANGED fvars

ParseKeys ==
    /\ pc = "check"
    /\ refs # Empty
    /\ ordered_keys' = parse_reference_keys(refs).keys
    /\ key_to_num' = parse_reference_keys(refs).key_to_num
    /\ pc' = "replace"
    /\ UNCHANGED <<stdin, text, before, refs, after, body_numbered,
                   refs_numbered, stdout, rerun>>
    /\ UNCHANGED fvars

ReplaceCitations ==
    /\ pc = "replace"
    /\ body_numbered' = replace_citations(before, key_to_num)
    /\ pc' = "renumber"
    /\ UNCHANGED <<stdin, text, before, refs, after, ordered_keys, key_to_num,
                   refs_numbered, stdout, rerun>>
    /\ UNCHANGED fvars

RenumberReferences ==
    /\ pc = "renumber"
    /\ refs_numbered' = renumber_references(refs, ordered_keys)
    /\ pc' = "write"
    /\ UNCHANGED <<stdin, text, before, refs, after, ordered_keys, key_to_num,
                   body_numbered, stdout, rerun>>
    /\ UNCHANGED fvars

\* The three sys.stdout.write calls that end main.
Write ==
    /\ pc = "write"
    /\ stdout' = body_numbered \o refs_numbered \o after
    /\ pc' = "done"
    /\ UNCHANGED <<stdin, text, before, refs, after, ordered_keys, key_to_num,
                   body_numbered, refs_numbered, rerun>>
    /\ UNCHANGED fvars

\* A second invocation, fed the document the first one wrote.
Rerun ==
    /\ pc = "done"
    /\ ~rerun
    /\ rerun' = TRUE
    /\ stdin' = stdout
    /\ text' = Empty
    /\ before' = Empty
    /\ refs' = Empty
    /\ after' = Empty
    /\ ordered_keys' = <<>>
    /\ key_to_num' = NoKeys
    /\ body_numbered' = Empty
    /\ refs_numbered' = Empty
    /\ stdout' = Empty
    /\ pc' = "read"
    /\ UNCHANGED fvars

---------------------------------------------------------------------------
(* fix_cites.py *)

Textbackslash ==
    <<"\\", "t", "e", "x", "t", "b", "a", "c", "k", "s", "l", "a", "s", "h">>
Cite == <<"c", "i", "t", "e">>
BackslashCite == <<"\\">> \o Cite

\* r"\\textbackslash\s+cite" matches at p: the position after it, else 0.
CiteAfter1(s, p) ==
    LET w == p + Len(Textbackslash)
        c == SkipSpace(s, w)
    IN  IF HasAt(s, p, Textbackslash) /\ c > w /\ HasAt(s, c, Cite)
        THEN c + Len(Cite) ELSE 0

\* r"\\textbackslash\\cite" matches at p: the position after it, else 0.
CiteAfter2(s, p) ==
    IF HasAt(s, p, Textbackslash \o BackslashCite)
    THEN p + Len(Textbackslash) + Len(BackslashCite) ELSE 0

\* patterns[n] up to the macro name, n = 1, 2.
CiteAfter(s, p, n) == IF n = 1 THEN CiteAfter1(s, p) ELSE CiteAfter2(s, p)

\* r"\\?\{" matches at q: the position of the brace, else 0.
BraceAt(s, q) ==
    IF HasAt(s, q, <<"{">>) THEN q
    ELSE IF HasAt(s, q, <<"\\", "{">>) THEN q + 1
    ELSE 0

\* r"([^}]+)\\?\}" after the brace at b: the greedy group runs to the first "}",
\* and takes a backslash before it with it.
ArgClose(s, b) == FirstOf(s, b + 1, "}")
ArgAt(s, b) == b # 0 /\ ArgClose(s, b) <= Len(s) /\ ArgClose(s, b) >= b + 2

\* patterns[n] matches at p.
EscapedAt(s, p, n) == CiteAfter(s, p, n) # 0 /\ ArgAt(s, BraceAt(s, CiteAfter(s, p, n)))

\* A variant: the replacement keeps the escape token.
CiteMacroEscaped(arg) == Textbackslash \o BackslashCite \o <<"{">> \o arg \o <<"}">>

\* The replacement r"\\cite{\1}".
CiteMacro(arg) == BackslashCite \o <<"{">> \o arg \o <<"}">>

\* patterns[n].sub(r"\\cite{\1}", text), scanning from position p.
RECURSIVE SubEscaped(_, _, _)
SubEscaped(s, p, n) ==
    IF p > Len(s) THEN Empty
    ELSE IF EscapedAt(s, p, n)
    THEN LET b == BraceAt(s, CiteAfter(s, p, n))
         IN  CiteMacro(SubSeq(s, b + 1, ArgClose(s, b) - 1))
             \o SubEscaped(s, ArgClose(s, b) + 1, n)
    ELSE <<s[p]>> \o SubEscaped(s, p + 1, n)

\* A variant: any character, not only a backslash, before the brace.
CleanupAtAny(s, p) ==
    LET b == p + Len(BackslashCite)
    IN  /\ HasAt(s, p, BackslashCite \o <<"{">>)
        /\ ArgClose(s, b) <= Len(s)
        /\ ArgClose(s, b) >= b + 2

\* r"\\cite\{([^}]*)\\\}" matches at p.
CleanupAt(s, p) ==
    LET b == p + Len(BackslashCite)
    IN  /\ HasAt(s, p, BackslashCite \o <<"{">>)
        /\ ArgClose(s, b) <= Len(s)
        /\ ArgClose(s, b) >= b + 2
        /\ s[ArgClose(s, b) - 1] = "\\"

\* re.sub(r"\\cite\{([^}]*)\\\}", r"\\cite{\1}", text), scanning from position p.
RECURSIVE SubCleanup(_, _)
SubCleanup(s, p) ==
    IF p > Len(s) THEN Empty
    ELSE IF CleanupAt(s, p)
    THEN LET b == p + Len(BackslashCite)
         IN  CiteMacro(SubSeq(s, b + 1, ArgClose(s, b) - 2))
             \o SubCleanup(s, ArgClose(s, b) + 1)
    ELSE <<s[p]>> \o SubCleanup(s, p + 1)

FixRead ==
    /\ fpc = "read"
    /\ ftext' = file
    /\ original' = file
    /\ fpc' = "sub1"
    /\ UNCHANGED <<given, file, frerun>>
    /\ UNCHANGED nvars

\* for pat in patterns: first turn
FixSubstitute1 ==
    /\ fpc = "sub1"
    /\ ftext' = SubEscaped(ftext, 1, 1)
    /\ fpc' = "sub2"
    /\ UNCHANGED <<given, file, original, frerun>>
    /\ UNCHANGED nvars

\* for pat in patterns: second turn
FixSubstitute2 ==
    /\ fpc = "sub2"
    /\ ftext' = SubEscaped(ftext, 1, 2)
    /\ fpc' = "cleanup"
    /\ UNCHANGED <<given, file, original, frerun>>
    /\ UNCHANGED nvars

FixCleanup ==
    /\ fpc = "cleanup"
    /\ ftext' = SubCleanup(ftext, 1)
    /\ fpc' = "write"
    /\ UNCHANGED <<given, file, original, frerun>>
    /\ UNCHANGED nvars

FixWrite ==
    /\ fpc = "write"
    /\ file' = ftext
    /\ fpc' = "done"
    /\ UNCHANGED <<given, original, ftext, frerun>>
    /\ UNCHANGED nvars

\* A second invocation on the file the first one rewrote.
FixRerun ==
    /\ fpc = "done"
    /\ ~frerun
    /\ frerun' = TRUE
    /\ ftext' = Empty
    /\ original' = Empty
    /\ fpc' = "read"
    /\ UNCHANGED <<given, file>>
    /\ UNCHANGED nvars

---------------------------------------------------------------------------
(* Input documents *)

\* The texts made by concatenating at most n pieces drawn from P.
RECURSIVE Flatten(_)
Flatten(ps) == IF ps = <<>> THEN Empty ELSE Head(ps) \o Flatten(Tail(ps))
Texts(P, n) == {Flatten(ps) : ps \in UNION {[1..k -> P] : k \in 0..n}}

MaxDoc == 4
MaxRefs == 4
MaxBody == 4
MaxFix == 3

\* Pieces of whole documents given to number_citations: a cited line, the
\* References heading (ended by a line break, by nothing, or by white space and
\* a line break with an anchor after it), a reference, another top-level
\* heading, plain text.
DocPieces ==
    { <<"<", "<", "a", ">", ">", "\n">>,
      <<"=", "=", " ", "R", "e", "f", "e", "r", "e", "n", "c", "e", "s", "\n">>,
      <<"=", "=", " ", "R", "e", "f", "e", "r", "e", "n", "c", "e", "s", " ", "\n", "[", "[", "a", "]", "]">>,
      <<"=", "=", " ", "R", "e", "f", "e", "r", "e", "n", "c", "e", "s">>,
      <<"[", "[", "a", "]", "]", " ", "t", "\n">>,
      <<"=", "=", " ", "N", "\n">>,
      <<"x">> }

\* Pieces of a references block: references with and without text around the
\* anchor, an anchor that ends no line, a line without an anchor.
RefsPieces ==
    { <<"[", "[", "a", "]", "]", " ", "t", "\n">>,
      <<"[", "[", " ", "b", " ", "]", "]", "\n">>,
      <<"*", " ", "[", "[", "c", "]", "]", "\n">>,
      <<"[", "[", "c", "]", "]">>,
      <<"x", "\n">> }

\* Bodies that cite the references in different orders, or not at all.
CitingBodies ==
    { <<>>,
      <<"<", "<", "a", ">", ">", ",", " ", "<", "<", "c", ">", ">", "\n">>,
      <<"<", "<", "c", ">", ">", "\n", "<", "<", "a", ">", ">", "\n">> }

\* Pieces of a body: markers of known keys (one with white space inside), a
\* marker of a key no reference defines, separators and plain text.
BodyPieces ==
    { <<"<", "<", "a", ">", ">">>,
      <<"<", "<", " ", "b", " ", ">", ">">>,
      <<"<", "<", "z", ">", ">">>,
      <<",">>,
      <<" ">>,
      <<"x">> }

\* References blocks that number the keys a and b in both orders.
KeyBlocks ==
    { <<"=", "=", " ", "R", "e", "f", "e", "r", "e", "n", "c", "e", "s", "\n", "[", "[", "a", "]", "]", "\n", "[", "[", "b", "]", "]", "\n">>,
      <<"=", "=", " ", "R", "e", "f", "e", "r", "e", "n", "c", "e", "s", "\n", "[", "[", "b", "]", "]", "\n", "[", "[", "a", "]", "]", "\n">> }

\* Pieces of a file given to fix_cites: the escaped macros pandoc leaves, with
\* and without escaped braces, and the fragments other text is made of.
FixPieces ==
    { <<"\\", "t", "e", "x", "t", "b", "a", "c", "k", "s", "l", "a", "s", "h", " ", "c", "i", "t", "e", "{", "k", "}">>,
      <<"\\", "t", "e", "x", "t", "b", "a", "c", "k", "s", "l", "a", "s", "h", "\\", "c", "i", "t", "e", "{", "k", "}">>,
      <<"\\", "t", "e", "x", "t", "b", "a", "c", "k", "s", "l", "a", "s", "h", " ", "c", "i", "t", "e", "\\", "{", "k", "\\", "}">>,
      <<"\\", "t", "e", "x", "t", "b", "a", "c", "k", "s", "l", "a", "s", "h", "\\", "c", "i", "t", "e", "\\", "{", "k", "\\", "}">>,
      <<"\\", "t", "e", "x", "t", "b", "a", "c", "k", "s", "l", "a", "s", "h">>,
      <<" ", "c", "i", "t", "e", "{">>,
      <<"\\", "c", "i", "t", "e", "{">>,
      <<"\\">>,
      <<"}">>,
      <<"k">> }

---------------------------------------------------------------------------
(* Specifications *)

NumIdle ==
    /\ stdin = Empty /\ text = Empty /\ before = Empty /\ refs = Empty
    /\ after = Empty /\ ordered_keys = <<>> /\ key_to_num = NoKeys
    /\ body_numbered = Empty /\ refs_numbered = Empty /\ stdout = Empty
    /\ pc = "idle" /\ rerun = FALSE

FixIdle ==
    /\ given = Empty /\ file = Empty /\ original = Empty /\ ftext = Empty
    /\ fpc = "idle" /\ frerun = FALSE

\* number_citations.main about to read one of the documents.
Init ==
    /\ stdin \in Texts(DocPieces, MaxDoc)
    /\ text = Empty /\ before = Empty /\ refs = Empty /\ after = Empty
    /\ ordered_keys = <<>> /\ key_to_num = NoKeys
    /\ body_numbered = Empty /\ refs_numbered = Empty /\ stdout = Empty
    /\ pc = "read" /\ rerun = FALSE
    /\ FixIdle

Next ==
    \/ Read
    \/ Split
    \/ Passthrough
    \/ ParseKeys
    \/ ReplaceCitations
    \/ RenumberReferences
    \/ Write
    \/ Rerun

Spec == Init /\ [][Next]_vars

\* number_citations.main after split_sections has returned b, r and no
\* trailing block.
AfterSplit(b, r) ==
    /\ split_sections(b \o r) = <<b, r, Empty>>
    /\ stdin = b \o r /\ text = b \o r
    /\ before = b /\ refs = r /\ after = Empty
    /\ ordered_keys = <<>> /\ key_to_num = NoKeys
    /\ body_numbered = Empty /\ refs_numbered = Empty /\ stdout = Empty
    /\ pc = "check" /\ rerun = FALSE
    /\ FixIdle

NextStages ==
    \/ ParseKeys
    \/ ReplaceCitations
    \/ RenumberReferences
    \/ Write

\* The stages of main over many references blocks.
InitRefs ==
    \E b \in CitingBodies, r \in Texts(RefsPieces, MaxRefs) :
        AfterSplit(b, RefsHeading \o <<"\n">> \o r)

SpecRefs == InitRefs /\ [][NextStages]_vars

\* The stages of main over many bodies.
InitCite ==
    \E b \in Texts(BodyPieces, MaxBody), r \in KeyBlocks :
        AfterSplit(b \o <<"\n">>, r)

SpecCite == InitCite /\ [][NextStages]_vars

\* fix_cites.main about to read one of the files, and run again on it.
InitFix ==
    /\ file \in Texts(FixPieces, MaxFix)
    /\ given = file
    /\ original = Empty /\ ftext = Empty
    /\ fpc = "read" /\ frerun = FALSE
    /\ NumIdle

NextFix ==
    \/ FixRead
    \/ FixSubstitute1
    \/ FixSubstitute2
    \/ FixCleanup
    \/ FixWrite
    \/ FixRerun

SpecFix == InitFix /\ [][NextFix]_vars

---------------------------------------------------------------------------
(* Key collection and the references block (SpecRefs) *)

KeysCollected == pc \in {"replace", "renumber", "write", "done"}

\* The lines of a references block that define an identifier, and the
\* identifier each defines (that of its first anchor).
Defining(lines) == {i \in 1..Len(lines) : SearchAnchor(lines[i]) # 0}
Ident(lines) ==
    [i \in Defining(lines) |-> AnchorKey(lines[i], SearchAnchor(lines[i]))]

\* The line that first defines each identifier, and how many distinct
\* identifiers are first defined at or above that line.
FirstLine(ident) ==
    [k \in {ident[i] : i \in DOMAIN ident} |->
        Least({i \in DOMAIN ident : ident[i] = k})]
Rank(first) ==
    [k \in DOMAIN first |->
        Cardinality({first[x] : x \in {y \in DOMAIN first : first[y] <= first[k]}})]

\* C1: once the keys are collected, the identifiers numbered are exactly those
\* the lines of the references block define; the identifier whose first
\* definition is the i-th new one from the top has number i, whatever later
\* lines repeat; the numbers are exactly 1..n without gap or clash, and
\* ordered_keys lists the identifiers by number.  The rank is computed from the
\* references block alone, so it is the same for every body.
C1_KeysNumberedByFirstDefinition ==
    KeysCollected =>
        LET first == FirstLine(Ident(SplitLines(refs)))
            rank == Rank(first)
            idents == DOMAIN first
        IN  /\ DOMAIN key_to_num = idents
            /\ \A k \in idents : key_to_num[k] = rank[k]
            /\ {key_to_num[k] : k \in idents} = 1..Cardinality(idents)
            /\ \A k1, k2 \in idents : key_to_num[k1] = key_to_num[k2] => k1 = k2
            /\ Len(ordered_keys) = Cardinality(idents)
            /\ \A k \in idents : ordered_keys[key_to_num[k]] = k

\* Three identifiers are numbered, a later line repeats the second of them, and
\* the body cites them in an order that is not the order of the references.
C1_Witness ==
    /\ pc = "replace"
    /\ before = <<"<", "<", "c", ">", ">", "\n", "<", "<", "a", ">", ">", "\n">>
    /\ LET ident == Ident(SplitLines(refs))
           first == FirstLine(ident)
       IN  /\ Cardinality(DOMAIN first) = 3
           /\ \E i \in DOMAIN ident : first[ident[i]] < i /\ key_to_num[ident[i]] = 2

\* p..e is an anchor marker [[key]] of the line: two opening brackets, at least
\* one character that is no closing bracket, two closing brackets.
IsAnchorSpan(line, p, e) ==
    /\ 1 <= p /\ p + 4 <= e /\ e <= Len(line)
    /\ line[p] = "[" /\ line[p + 1] = "["
    /\ line[e - 1] = "]" /\ line[e] = "]"
    /\ \A j \in (p + 2)..(e - 2) : line[j] # "]"
HasAnchor(line) == \E p, e \in 1..Len(line) : IsAnchorSpan(line, p, e)

\* What the claim says a line of the references block becomes.
FirstAnchorNumbered(line, out) ==
    IF ~HasAnchor(line) THEN out = line
    ELSE \E p, e \in 1..Len(line) :
           /\ IsAnchorSpan(line, p, e)
           /\ \A q, f \in 1..Len(line) : IsAnchorSpan(line, q, f) => p <= q
           /\ LET key == Strip(SubSeq(line, p + 2, e - 2))
              IN  /\ key \in DOMAIN key_to_num
                  /\ out = SubSeq(line, 1, p - 1)
                           \o <<"[">> \o ToStr(key_to_num[key]) \o <<"]">>
                           \o From(line, e + 1)

\* The stretches of s between its line breaks (s.split("\n")).
RECURSIVE BrokenAtLineBreaks(_)
BrokenAtLineBreaks(s) ==
    LET nl == FirstOf(s, 1, "\n")
    IN  IF nl > Len(s) THEN <<s>>
        ELSE <<SubSeq(s, 1, nl - 1)>> \o BrokenAtLineBreaks(From(s, nl + 1))

\* C6: the rewritten references block is the lines of the block, in order and
\* joined by line breaks, none added or dropped; a line with an anchor marker
\* has its first marker replaced by [n], n the number key collection gave the
\* key, and is otherwise unchanged; a line without a marker is unchanged.
C6_OnlyFirstAnchorOfEachLineRewritten ==
    pc \in {"write", "done"} =>
        LET lines == SplitLines(refs)
            out == BrokenAtLineBreaks(refs_numbered)
        IN  /\ Len(out) = Len(lines)
            /\ \A i \in 1..Len(lines) : FirstAnchorNumbered(lines[i], out[i])

\* A block with a line that holds two anchor markers and a line that holds
\* none has been rewritten.
C6_Witness ==
    /\ pc = "write"
    /\ refs_numbered # refs
    /\ LET lines == SplitLines(refs)
       IN  /\ \E i \in 2..Len(lines) : ~HasAnchor(lines[i]) /\ lines[i] # Empty
           /\ \E i \in 1..Len(lines) :
                 \E p, e, q, f \in 1..Len(lines[i]) :
                     /\ IsAnchorSpan(lines[i], p, e)
                     /\ IsAnchorSpan(lines[i], q, f)
                     /\ e < q

---------------------------------------------------------------------------
(* The body rewrite (SpecCite) *)

\* A cross-reference marker <<id>>: its identifier holds no angle bracket.
IsMarker(s) ==
    /\ Len(s) >= 5
    /\ s[1] = "<" /\ s[2] = "<" /\ s[Len(s) - 1] = ">" /\ s[Len(s)] = ">"
    /\ \A j \in 3..(Len(s) - 2) : s[j] \notin {"<", ">"}

\* What separates two markers of a run: one comma, with optional white space
\* on either side.
IsSeparator(s) ==
    /\ Cardinality({j \in 1..Len(s) : s[j] = ","}) = 1
    /\ \A j \in 1..Len(s) : s[j] = "," \/ IsSpace(s[j])

\* The identifiers of s read as a run of markers, left to right; <<>> when s
\* is no run.
RECURSIVE RunIdents(_)
RunIdents(s) ==
    LET close == FirstOf(s, 1, ">") + 1
        open == FirstOf(s, close + 1, "<")
        rest == RunIdents(From(s, open))
    IN  IF close > Len(s) \/ ~IsMarker(SubSeq(s, 1, close)) THEN <<>>
        ELSE IF close = Len(s) THEN <<Strip(SubSeq(s, 3, close - 2))>>
        ELSE IF IsSeparator(SubSeq(s, close + 1, open - 1)) /\ rest # <<>>
        THEN <<Strip(SubSeq(s, 3, close - 2))>> \o rest
        ELSE <<>>

IsRun(s) == RunIdents(s) # <<>>
AllKnown(run) == \A i \in 1..Len(RunIdents(run)) : RunIdents(run)[i] \in DOMAIN key_to_num
NoMarkerStart(s) == \A j \in 1..Len(s) : s[j] # "<"

\* What the specification says a run becomes: one bracket with the numbers of
\* its identifiers, in their order, when all are numbered; itself otherwise.
Rewritten(run) ==
    LET ids == RunIdents(run)
    IN  IF AllKnown(run)
        THEN <<"[">>
             \o Join(<<",", " ">>, [i \in 1..Len(ids) |-> ToStr(key_to_num[ids[i]])])
             \o <<"]">>
        ELSE run

\* body is text, run, text: i..j is its only run.
OneRun(body, i, j) ==
    /\ 1 <= i /\ i <= j /\ j <= Len(body)
    /\ NoMarkerStart(SubSeq(body, 1, i - 1))
    /\ IsRun(SubSeq(body, i, j))
    /\ NoMarkerStart(From(body, j + 1))

\* body is text, run, text, run, text: i..j and k..l are its two runs, and
\* what lies between them does not join them into one.
TwoRuns(body, i, j, k, l) ==
    /\ 1 <= i /\ i <= j /\ j < k /\ k <= l /\ l <= Len(body)
    /\ NoMarkerStart(SubSeq(body, 1, i - 1))
    /\ IsRun(SubSeq(body, i, j))
    /\ NoMarkerStart(SubSeq(body, j + 1, k - 1))
    /\ ~IsSeparator(SubSeq(body, j + 1, k - 1))
    /\ IsRun(SubSeq(body, k, l))
    /\ NoMarkerStart(From(body, l + 1))

BodyAsSpecified(body, out, cases(_)) ==
    LET i == FirstOf(body, 1, "<")
    IN  /\ \A j \in i..Len(body) :
              (OneRun(body, i, j) /\ cases({SubSeq(body, i, j)})) =>
                  out = SubSeq(body, 1, i - 1)
                        \o Rewritten(SubSeq(body, i, j))
                        \o From(body, j + 1)
        /\ \A j \in i..Len(body) :
              LET k == FirstOf(body, j + 1, "<")
              IN  \A l \in k..Len(body) :
                     (/\ TwoRuns(body, i, j, k, l)
                      /\ cases({SubSeq(body, i, j), SubSeq(body, k, l)})) =>
                         out = SubSeq(body, 1, i - 1)
                               \o Rewritten(SubSeq(body, i, j))
                               \o SubSeq(body, j + 1, k - 1)
                               \o Rewritten(SubSeq(body, k, l))
                               \o From(body, l + 1)

BodyRewritten == pc \in {"renumber", "write", "done"}

EveryRunKnown(runs) == \A r \in runs : AllKnown(r)
SomeRunUnknown(runs) == \E r \in runs : ~AllKnown(r)

\* C2: in a body whose runs of markers all name numbered identifiers, each run
\* has become one bracket holding the numbers of its identifiers, separated by
\* a comma and a space, in the order of the markers, and the text around the
\* runs is unchanged (bodies of one run and of two runs).
C2_KnownRunsBecomeOneBracket ==
    BodyRewritten => BodyAsSpecified(before, body_numbered, EveryRunKnown)

\* A run of two markers whose numbers are 2 and 1, in that order, has become
\* the bracket [2, 1] between unchanged text.
C2_Witness ==
    /\ pc = "renumber"
    /\ \E i, j \in 1..Len(before) :
          /\ i >= 2
          /\ OneRun(before, i, j)
          /\ AllKnown(SubSeq(before, i, j))
          /\ Len(RunIdents(SubSeq(before, i, j))) = 2
          /\ Rewritten(SubSeq(before, i, j)) = <<"[", "2", ",", " ", "1", "]">>
          /\ body_numbered = SubSeq(before, 1, i - 1)
                             \o <<"[", "2", ",", " ", "1", "]">>
                             \o From(before, j + 1)

\* C3: in a body with a run that names an identifier no reference defines,
\* that run stands in the output exactly as in the input, its markers of
\* numbered identifiers included, while a run of the same body whose
\* identifiers are all numbered is still rewritten.
C3_RunWithUnknownKeyUntouched ==
    BodyRewritten => BodyAsSpecified(before, body_numbered, SomeRunUnknown)

\* A run that mixes a numbered and an unnumbered identifier is left as it
\* was, and another run of the same body has become a bracket.
C3_Witness ==
    /\ pc = "renumber"
    /\ body_numbered # before
    /\ \E i, j, k, l \in 1..Len(before) :
          /\ TwoRuns(before, i, j, k, l)
          /\ AllKnown(SubSeq(before, i, j))
          /\ ~AllKnown(SubSeq(before, k, l))
          /\ \E n \in 1..Len(RunIdents(SubSeq(before, k, l))) :
                RunIdents(SubSeq(before, k, l))[n] \in DOMAIN key_to_num
          /\ SubSeq(body_numbered, Len(body_numbered) - (Len(before) - k),
                    Len(body_numbered) - (Len(before) - l)) = SubSeq(before, k, l)

---------------------------------------------------------------------------
(* Whole runs of number_citations (Spec) *)

\* Line i..e of d, e the position that ends it.
LineEndFrom(d, i) == FirstOf(d, i, "\n")

\* d has a line that is exactly "== References".
HasExactHeadingLine(d) ==
    \E i \in 1..Len(d) :
        /\ AtLineStart(d, i)
        /\ SubSeq(d, i, LineEndFrom(d, i) - 1) = RefsHeading

\* d has a line that is "== References" followed by nothing but white space.
HasHeadingLine(d) ==
    \E i \in 1..Len(d) :
        /\ AtLineStart(d, i)
        /\ HasAt(d, i, RefsHeading)
        /\ \A j \in (i + Len(RefsHeading))..(LineEndFrom(d, i) - 1) : IsSpace(d[j])

\* C4 as written: a document without a line that is exactly "== References"
\* is written out as it was read.
C4_PassthroughWithoutExactHeading ==
    (pc = "done" /\ ~HasExactHeadingLine(stdin)) => stdout = stdin

\* C4 as amended: a document without a line that is "== References" followed by
\* optional trailing white space is written out as it was read, markers and
\* anchors included.
C4_PassthroughWithoutHeadingLine ==
    (pc = "done" /\ ~HasHeadingLine(stdin)) => stdout = stdin

\* A document that holds a marker, an anchor of the same key and the words
\* "== References" in the middle of a line has been passed through.
C4_Witness ==
    /\ pc = "done"
    /\ ~rerun
    /\ ~HasHeadingLine(stdin)
    /\ \E i \in 1..Len(stdin) : HasAt(stdin, i, RefsHeading)
    /\ \E i \in 1..Len(stdin) : MarkerAt(stdin, i)
    /\ \E i \in 1..Len(stdin) : AnchorAt(stdin, i)
    /\ stdout = stdin

LineBreaks(d) == Cardinality({i \in 1..Len(d) : d[i] = "\n"})

\* C9: with a References heading present, the output has the line breaks of
\* the input: as many of them, the heading that ends the references block at
\* the start of a line, and the final line break when the block ends the input.
C9_LineStructureKept ==
    (pc = "done" /\ refs # Empty) =>
        /\ LineBreaks(stdout) = LineBreaks(stdin)
        /\ after # Empty => AtLineStart(stdout, Len(stdout) - Len(after) + 1)
        /\ (after = Empty /\ stdin[Len(stdin)] = "\n") =>
               (stdout # Empty /\ stdout[Len(stdout)] = "\n")

---------------------------------------------------------------------------
(* fix_cites (SpecFix) *)

\* b is the opening brace of an escaped citation macro that starts at p: the
\* escape token, then white space or a backslash, then cite, then the brace,
\* itself escaped or not.
EscapedOpening(d, p, b) ==
    /\ HasAt(d, p, Textbackslash)
    /\ b <= Len(d)
    /\ d[b] = "{"
    /\ \E c \in {b - 4, b - 5} :
          /\ HasAt(d, c, Cite)
          /\ c = b - 5 => d[b - 1] = "\\"
          /\ LET w == p + Len(Textbackslash)
             IN  \/ c > w /\ \A j \in w..(c - 1) : IsSpace(d[j])
                 \/ c = w + 1 /\ d[w] = "\\"

\* g is the brace that closes the argument opened at b.
Closing(d, b, g) ==
    /\ b < g /\ g <= Len(d)
    /\ d[g] = "}"
    /\ \A j \in (b + 1)..(g - 1) : d[j] # "}"

Escapes(d) == {p \in 1..Len(d) : HasAt(d, p, Textbackslash)}

\* d holds an escaped citation macro with a non-empty argument.
HasEscapedMacro(d) ==
    \E p \in Escapes(d) : \E b \in p..Len(d) :
        EscapedOpening(d, p, b) /\ ArgClose(d, b) <= Len(d) /\ ArgClose(d, b) > b + 1

\* d holds a direct \cite{...} whose closing brace follows an escape character.
HasEscapeBeforeClosingBrace(d) ==
    \E p \in 1..Len(d) :
        /\ HasAt(d, p, BackslashCite \o <<"{">>)
        /\ \E g \in (p + 7)..Len(d) : Closing(d, p + 5, g) /\ d[g - 1] = "\\"

\* C7 as written: a file without an escaped citation macro is written back as
\* it was read, whatever the arguments of its direct \cite macros.
C7_NoEscapedMacroNoChange ==
    (fpc = "done" /\ ~HasEscapedMacro(original)) => file = original

\* C7 as amended: a file without an escaped citation macro and without a
\* direct \cite{...} whose closing brace follows an escape character is written
\* back as it was read.
C7_NoEscapedMacroNoStrayEscapeNoChange ==
    (/\ fpc = "done"
     /\ ~HasEscapedMacro(original)
     /\ ~HasEscapeBeforeClosingBrace(original)) => file = original

\* A file that holds a lone escape token and a direct \cite{k}, and no escaped
\* macro, has been written back unchanged.
C7_Witness ==
    /\ fpc = "done"
    /\ ~frerun
    /\ ~HasEscapedMacro(original)
    /\ ~HasEscapeBeforeClosingBrace(original)
    /\ \E p \in 1..Len(original) : HasAt(original, p, CiteMacro(<<"k">>))
    /\ file = original

\* The characters a citation key is made of.
IsKeyChar(c) == c \notin {"\\", "{", "}"} /\ ~IsSpace(c)

\* The key of s read as one well-formed escaped macro, with or without an
\* escape before its braces; <<>> when s is none.
MacroKey(s) ==
    LET opens == {b \in 1..Len(s) : EscapedOpening(s, 1, b)}
        b == Least(opens)
        e == IF s[Len(s) - 1] = "\\" THEN Len(s) - 2 ELSE Len(s) - 1
    IN  IF /\ opens # {}
           /\ s[Len(s)] = "}"
           /\ e > b
           /\ \A j \in (b + 1)..e : IsKeyChar(s[j])
        THEN SubSeq(s, b + 1, e)
        ELSE <<>>

IsMacro(s) == MacroKey(s) # <<>>

\* Text that holds no escape token and no stray escape for the cleanup pass.
Plain(t) == Escapes(t) = {} /\ ~HasEscapeBeforeClosingBrace(t)

\* Text that holds no escaped citation macro.
Unescaped(t) == ~HasEscapedMacro(t)

\* out is d with its well-formed escaped macros replaced by \cite{key} and the
\* text around them, which passes the test outside, unchanged (files of one
\* macro and of two).
MacrosRewritten(d, out, outside(_)) ==
    /\ \A i \in Escapes(d) : \A j \in i..Len(d) :
          (/\ d[j] = "}"
           /\ IsMacro(SubSeq(d, i, j))
           /\ outside(SubSeq(d, 1, i - 1))
           /\ outside(From(d, j + 1))) =>
              out = SubSeq(d, 1, i - 1)
                    \o BackslashCite \o <<"{">> \o MacroKey(SubSeq(d, i, j)) \o <<"}">>
                    \o From(d, j + 1)
    /\ \A i, k \in Escapes(d) : \A j \in i..(k - 1) : \A l \in k..Len(d) :
          (/\ d[j] = "}" /\ d[l] = "}"
           /\ IsMacro(SubSeq(d, i, j))
           /\ IsMacro(SubSeq(d, k, l))
           /\ outside(SubSeq(d, 1, i - 1))
           /\ outside(SubSeq(d, j + 1, k - 1))
           /\ outside(From(d, l + 1))) =>
              out = SubSeq(d, 1, i - 1)
                    \o BackslashCite \o <<"{">> \o MacroKey(SubSeq(d, i, j)) \o <<"}">>
                    \o SubSeq(d, j + 1, k - 1)
                    \o BackslashCite \o <<"{">> \o MacroKey(SubSeq(d, k, l)) \o <<"}">>
                    \o From(d, l + 1)

\* C8 as written: every well-formed escaped macro has become \cite{key} and
\* every character outside the escaped macros is unchanged.
C8_MacrosRewrittenRestUnchanged ==
    fpc = "done" => MacrosRewritten(original, file, Unescaped)

\* C8 as amended: the same, for files whose text outside the escaped macros
\* holds no escape token and no direct \cite{...} with an escape character
\* before its closing brace.
C8_MacrosRewrittenPlainRestUnchanged ==
    fpc = "done" => MacrosRewritten(original, file, Plain)

\* A macro with escaped braces, between two stretches of plain text, has
\* become \cite{k} and the text around it is as it was.
C8_Witness ==
    /\ fpc = "done"
    /\ ~frerun
    /\ \E i \in Escapes(original) : \E j \in i..Len(original) :
          /\ i > 1 /\ j < Len(original)
          /\ IsMacro(SubSeq(original, i, j))
          /\ original[j - 1] = "\\"
          /\ Plain(SubSeq(original, 1, i - 1))
          /\ Plain(From(original, j + 1))
          /\ file = SubSeq(original, 1, i - 1) \o CiteMacro(<<"k">>)
                    \o From(original, j + 1)

\* C10: a second run of fix_cites on the file the first run wrote changes
\* nothing.
C10_SecondRunChangesNothing ==
    (fpc = "done" /\ frerun) => file = original

=============================================================================
